---- MODULE Spec2Model ----
(***************************************************************************)
(* A model of the geozarr package.                                         *)
(*                                                                         *)
(*   src/src/geozarr/dataset.py   GeoZarrDataset: the schema setter, the   *)
(*                                set_index method and the insert          *)
(*                                coroutine, over a zarr group             *)
(*   src/src/geozarr/bilinear.py  create_overview                          *)
(*                                                                         *)
(* Three specifications share the variables:                               *)
(*   Spec          the life of one dataset: schema assignment, set_index,  *)
(*                 insert coroutines created and run by the event loop     *)
(*   SpecCRS       schema assignment over the grids and CRS descriptions   *)
(*                 the geodesy library can return                          *)
(*   SpecOverview  create_overview, one loop iteration per step            *)
(***************************************************************************)
EXTENDS Integers, Sequences, FiniteSets, TLC

VARIABLES
    mode,          \* GeoZarrDataset._mode
    value,         \* the dict handed to the schema setter (the setter mutates it)
    groups,        \* names of the groups of the zarr store
    arrays,        \* path -> array of the zarr store (shape, cells, attributes)
    root_attrs,    \* attributes of the root group
    phase,         \* "opened", "returned" (the setter returned) or the exception it raised
    futures,       \* insert coroutines created and not yet run by the event loop
    finished,      \* insert coroutines the event loop has run, with their outcome
    raised,        \* the exception the last set_index call raised, "" when none
    image,         \* create_overview: the input raster
    zoom_level,    \* create_overview: zoom_level
    pos,           \* create_overview: the (row, col) the loops are at
    zoom_image,    \* create_overview: the output raster
    outcome        \* create_overview: "loop", "returned" or the exception raised

dsVars == <<mode, value, groups, arrays, root_attrs, phase, futures, finished, raised>>
ovVars == <<image, zoom_level, pos, zoom_image, outcome>>
vars == <<mode, value, groups, arrays, root_attrs, phase, futures, finished, raised,
          image, zoom_level, pos, zoom_image, outcome>>

(***************************************************************************)
(* Bounds of the model.                                                    *)
(***************************************************************************)
MaxSide == 4        \* height and width of an input raster
MaxBands == 2
MaxSamples == 9     \* height * width * bands of an input raster
MaxZoom == 2

\* pixel values of the input rasters: 2 and 3 average to 2.5, a rounding tie
PixelValues == {0, 2, 3}

Max(S) == CHOOSE m \in S : \A n \in S : n <= m

Pow2(n) == IF n <= 0 THEN 1 ELSE 2 ^ n

(***************************************************************************)
(* create_overview                                                         *)
(***************************************************************************)
\* image.shape of a raster held as a function over <<row, col, band>>
Height(img) == Max({p[1] : p \in DOMAIN img}) + 1
Width(img) == Max({p[2] : p \in DOMAIN img}) + 1
Bands(img) == Max({p[3] : p \in DOMAIN img}) + 1

start == Pow2(zoom_level - 1) - 1
step == Pow2(zoom_level)
zoom_shape == <<Height(image) \div step, Width(image) \div step, Bands(image)>>

\* np.zeros(zoom_shape, array_type)
Zeros(shape) ==
    [p \in (0 .. shape[1] - 1) \X (0 .. shape[2] - 1) \X (0 .. shape[3] - 1) |-> 0]

\* the first (row, col) of the nested range(start, n, step) loops; <<>> when
\* the loops have no iteration
FirstPos(img, z) ==
    IF Pow2(z - 1) - 1 < Height(img) /\ Pow2(z - 1) - 1 < Width(img)
    THEN <<Pow2(z - 1) - 1, Pow2(z - 1) - 1>>
    ELSE <<>>

\* the (row, col) after p in the nested loops; <<>> when p was the last
NextPos(p) ==
    IF p[2] + step < Width(image) THEN <<p[1], p[2] + step>>
    ELSE IF p[1] + step < Height(image) THEN <<p[1] + step, start>>
    ELSE <<>>

\* image[row:row + 2, col:col + 2]: the positions the slice holds
pixel_values(p) ==
    {q \in DOMAIN image : q[1] \in p[1] .. p[1] + 1 /\ q[2] \in p[2] .. p[2] + 1}

BandSamples(p, b) == {q \in pixel_values(p) : q[3] = b}

RECURSIVE SumOver(_)
SumOver(S) ==
    IF S = {} THEN 0
    ELSE LET q == CHOOSE x \in S : TRUE IN image[q] + SumOver(S \ {q})

\* np.round of num / den: to the nearest integer, a tie to the even one
RoundHalfEven(num, den) ==
    LET q == num \div den
        r == num % den
    IN IF 2 * r < den THEN q
       ELSE IF 2 * r > den THEN q + 1
       ELSE IF q % 2 = 0 THEN q ELSE q + 1

\* weight = pixel_values > 0, summed per band (the scl of np.average)
WeightSum(p, b) == Cardinality({q \in BandSamples(p, b) : image[q] > 0})

\* np.round(np.average(pixel_values, (0, 1), weight))[b]
avg_values(p, b) ==
    RoundHalfEven(SumOver({q \in BandSamples(p, b) : image[q] > 0}), WeightSum(p, b))

\* zoom_image[row // step, col // step] = v is inside the array
InZoomImage(p) == p[1] \div step < zoom_shape[1] /\ p[2] \div step < zoom_shape[2]

AllBands == 0 .. Bands(image) - 1

\* one iteration of the loop body, lines 31-35: the block has a value > 0
OverviewAverage ==
    /\ outcome = "loop"
    /\ pos # <<>>
    /\ Max({image[q] : q \in pixel_values(pos)}) > 0
    /\ IF \E b \in AllBands : WeightSum(pos, b) = 0
       THEN /\ outcome' = "ZeroDivisionError"
            /\ UNCHANGED <<pos, zoom_image>>
       ELSE IF ~InZoomImage(pos)
       THEN /\ outcome' = "IndexError"
            /\ UNCHANGED <<pos, zoom_image>>
       ELSE /\ zoom_image' =
                   [q \in DOMAIN zoom_image |->
                       IF q[1] = pos[1] \div step /\ q[2] = pos[2] \div step
                       THEN avg_values(pos, q[3])
                       ELSE zoom_image[q]]
            /\ pos' = NextPos(pos)
            /\ UNCHANGED outcome
    /\ UNCHANGED <<image, zoom_level>>
    /\ UNCHANGED dsVars

\* one iteration of the loop body, lines 31-32 and 37-38: the block is all 0
OverviewZero ==
    /\ outcome = "loop"
    /\ pos # <<>>
    /\ Max({image[q] : q \in pixel_values(pos)}) <= 0
    /\ IF ~InZoomImage(pos)
       THEN /\ outcome' = "IndexError"
            /\ UNCHANGED <<pos, zoom_image>>
       ELSE /\ zoom_image' =
                   [q \in DOMAIN zoom_image |->
                       IF q[1] = pos[1] \div step /\ q[2] = pos[2] \div step
                       THEN 0
                       ELSE zoom_image[q]]
            /\ pos' = NextPos(pos)
            /\ UNCHANGED outcome
    /\ UNCHANGED <<image, zoom_level>>
    /\ UNCHANGED dsVars

\* line 40: the loops are over
OverviewReturn ==
    /\ outcome = "loop"
    /\ pos = <<>>
    /\ outcome' = "returned"
    /\ UNCHANGED <<image, zoom_level, pos, zoom_image>>
    /\ UNCHANGED dsVars

RasterShapes ==
    {s \in (2 .. MaxSide) \X (2 .. MaxSide) \X (1 .. MaxBands) :
        s[1] * s[2] * s[3] <= MaxSamples}

Rasters ==
    UNION {[(0 .. s[1] - 1) \X (0 .. s[2] - 1) \X (0 .. s[3] - 1) -> PixelValues] :
              s \in RasterShapes}

(***************************************************************************)
(* GeoZarrDataset: data                                                    *)
(***************************************************************************)
MaxExtent == 2      \* extent of an axis of a variable
MaxVal == 2         \* coordinate values and data values are 1 .. MaxVal
MaxSel == 2         \* length of the indexes list of an insert call
MaxCalls == 2       \* insert coroutines created on one event loop

\* class DimensionType
DIMENSION_VALUE == 1
COORDINATE_X == 2
COORDINATE_Y == 3
COORDINATE_Z == 4

Vals == 1 .. MaxVal

\* f'/{var}/{name}': the path of an array in the group of a variable
Path(var, name) == <<var, name>>

\* dict.update: the keys of new win
Update(old, new) == new @@ old

\* del d[key]
Del(d, key) == [k \in (DOMAIN d) \ {key} |-> d[k]]

\* the index tuples (0-based) of an array of this shape
Indices(shape) ==
    {idx \in [1 .. Len(shape) -> 0 .. Max({0} \cup {shape[i] : i \in 1 .. Len(shape)})] :
        \A i \in 1 .. Len(shape) : idx[i] < shape[i]}

\* an array of the store. cells maps the index tuples that were written to their
\* value: np.empty allocates without writing, so a new array has no cell yet
\* and what a read of such a cell returns is arbitrary.
NewArray(shape, cells, attrs) == [shape |-> shape, cells |-> cells, attrs |-> attrs]

\* np.empty(shape, dtype)
np_empty == <<>>

(***************************************************************************)
(* The schemas handed to the setter.                                       *)
(***************************************************************************)
\* DimensionSpec tuples (name, standard_name, units, dtype, kind)
DimTime == <<"time", "time", "ns", "<M8[ns]", DIMENSION_VALUE>>
DimBand == <<"band", "band", "1", "int32", DIMENSION_VALUE>>
DimY == <<"y", "projection_y_coordinate", "m", "float64", COORDINATE_Y>>
DimX == <<"x", "projection_x_coordinate", "m", "float64", COORDINATE_X>>
DimZ == <<"z", "height", "m", "float64", COORDINATE_Z>>

DimLists == {<<DimTime>>, <<DimTime, DimBand>>, <<DimTime, DimY, DimX>>}

DimListsZ == DimLists \cup {<<DimZ, DimY, DimX>>}

\* the shapes of up to 3 axes with extents 1 .. MaxExtent, and those of them
\* whose axes all have the same extent
Shapes == UNION {[1 .. n -> 1 .. MaxExtent] : n \in 1 .. 3}
CubeShapes == {sh \in Shapes : \A i, j \in 1 .. Len(sh) : sh[i] = sh[j]}

Variables(dimLists, shapes) ==
    {[name |-> "SWE",
      attributes |-> [long_name |-> "Snow water equivalent", units |-> "m"],
      shape |-> shape,
      dtype |-> "float64",
      dimensions |-> dims] :
        dims \in dimLists, shape \in shapes}

WellFormed(var) == Len(var.dimensions) = Len(var.shape)

GlobalAttributes == [conventions |-> "CF-1.11"]

\* the method names and parameter names of the geodesy library, and what
\* str.upper and str.lower make of them
Upper ==
    [n \in {"Transverse Mercator", "transverse mercator", "Lambert Conic Conformal (2SP)"} |->
        CASE n = "Transverse Mercator" -> "TRANSVERSE MERCATOR"
          [] n = "transverse mercator" -> "TRANSVERSE MERCATOR"
          [] OTHER -> "LAMBERT CONIC CONFORMAL (2SP)"]

Lower ==
    [n \in {"False easting", "False northing", "Scale factor at natural origin",
            "Longitude of natural origin", "Latitude of natural origin",
            "Latitude of false origin"} |->
        CASE n = "False easting" -> "false easting"
          [] n = "False northing" -> "false northing"
          [] n = "Scale factor at natural origin" -> "scale factor at natural origin"
          [] n = "Longitude of natural origin" -> "longitude of natural origin"
          [] n = "Latitude of natural origin" -> "latitude of natural origin"
          [] OTHER -> "latitude of false origin"]

\* coordinate_operation.params as the library returns them
ParamLists ==
    {<<>>,
     <<[name |-> "Latitude of natural origin", value |-> "0"],
       [name |-> "Longitude of natural origin", value |-> "-75"],
       [name |-> "Scale factor at natural origin", value |-> "0.9996"],
       [name |-> "False easting", value |-> "500000"],
       [name |-> "False northing", value |-> "0"]>>,
     <<[name |-> "Latitude of false origin", value |-> "40"],
       [name |-> "False easting", value |-> "200000"]>>}

\* What the geodesy library resolves a CRS string to. source_op says whether
\* crs.source_crs.coordinate_operation is an operation: it is None when the
\* source CRS has none, and the source of a geographic CRS never has one.
\* A geographic CRS has no coordinate operation of its own (method_name "").
GeographicCRS ==
    [is_projected : {FALSE}, method_name : {""}, source_op : {FALSE},
     params : {<<>>}, is_semi_minor_computed : BOOLEAN]

ProjectedCRS ==
    [is_projected : {TRUE}, method_name : DOMAIN Upper, source_op : BOOLEAN,
     params : ParamLists, is_semi_minor_computed : BOOLEAN]

ResolvedCRS == GeographicCRS \cup ProjectedCRS

\* grid['crs']: 'EPSG:<code>' or a WKT string, with the CRS it resolves to
CrsSpecs == [epsg : BOOLEAN, crs : ResolvedCRS]

\* CRS.from_epsg(4326): geographic, WGS 84
EPSG4326 ==
    [is_projected |-> FALSE, method_name |-> "", source_op |-> FALSE,
     params |-> <<>>, is_semi_minor_computed |-> TRUE]

GridBase == [upperLeft |-> <<100, 200>>, unitSize |-> 10]

Grids == {GridBase} \cup {[crs |-> c] @@ GridBase : c \in CrsSpecs}

\* the schemas of given global_attributes, grids, dimension lists and shapes:
\* with or without a grid, one variable
Schemas(globals, grids, dimLists, shapes) ==
    {ga @@ gr @@ [SWE |-> var] :
        ga \in globals,
        gr \in {<<>>} \cup {[grid |-> g] : g \in grids},
        var \in {v \in Variables(dimLists, shapes) : WellFormed(v)}}

(***************************************************************************)
(* The schema setter                                                       *)
(***************************************************************************)
\* lines 47-58: the loop over coord_operation_params, params.update per match
RECURSIVE ExtractParams(_)
ExtractParams(ps) ==
    IF ps = <<>> THEN <<>>
    ELSE LET rest == ExtractParams(SubSeq(ps, 1, Len(ps) - 1))
             param == ps[Len(ps)]
             key == Lower[param.name]
         IN CASE key = "false easting" -> Update(rest, [falseEast |-> param.value])
              [] key = "false northing" -> Update(rest, [falseNorth |-> param.value])
              [] key = "scale factor at natural origin" -> Update(rest, [scale |-> param.value])
              [] key = "longitude of natural origin" -> Update(rest, [longOrigin |-> param.value])
              [] key = "latitude of natural origin" -> Update(rest, [latOrigin |-> param.value])
              [] OTHER -> rest

Get(d, key, default) == IF key \in DOMAIN d THEN d[key] ELSE default

\* SemiAxes with the test of line 71 negated
SemiAxesIfNotComputed(crs) ==
    IF ~crs.is_semi_minor_computed
    THEN [semi_major_axis |-> "semi_major_metre", semi_minor_axis |-> "semi_minor_metre"]
    ELSE <<>>

\* lines 71-73: the ellipsoid axes are added when is_semi_minor_computed
SemiAxes(crs) ==
    IF crs.is_semi_minor_computed
    THEN [semi_major_axis |-> "semi_major_metre", semi_minor_axis |-> "semi_minor_metre"]
    ELSE <<>>

\* lines 39-75, for a crs whose source_crs has a coordinate operation
_transverse_mercator(crs) ==
    LET params == ExtractParams(crs.params)
    IN SemiAxes(crs) @@
       [grid_mapping_name |-> "transverse_mercator",
        inverse_flattening |-> "inverse_flattening",
        longitude_of_prime_meridian |-> "prime_meridian.longitude",
        false_easting |-> Get(params, "falseEast", "0.0"),
        false_northing |-> Get(params, "falseNorth", "0.0"),
        scale_factor_at_central_meridian |-> Get(params, "scale", "1.0"),
        longitude_of_central_meridian |-> Get(params, "longOrigin", "0.0"),
        latitude_of_projection_origin |-> Get(params, "latOrigin", "0.0")]

\* lines 91-93: the test of the 'EPSG:' branch
IsTransverseMercator(crs) ==
    crs.is_projected /\ Upper[crs.method_name] = "TRANSVERSE MERCATOR"

\* lines 89-102: whether _transverse_mercator is called for grid['crs']
CallsTransverseMercator(spec) ==
    IF spec.epsg THEN IsTransverseMercator(spec.crs) ELSE TRUE

\* line 46 raises AttributeError ('NoneType' object has no attribute ...) when
\* crs.source_crs or its coordinate_operation is None
GridRaises(grid) ==
    /\ "crs" \in DOMAIN grid
    /\ CallsTransverseMercator(grid.crs)
    /\ ~grid.crs.crs.source_op

\* A WKT string describes its CRS in full: it is held as the pair of how it
\* came about and the CRS it describes.
\* crs_value.to_wkt(), the library's serialisation
to_wkt(crs) == <<"to_wkt", crs>>
\* the WKT string the caller wrote in grid['crs']
RawWkt(crs) == <<"grid['crs']", crs>>

\* lines 96 and 102: crs_value.to_wkt() in the 'EPSG:' branch, grid['crs']
\* itself otherwise
SpatialRef(spec) == IF spec.epsg THEN to_wkt(spec.crs) ELSE RawWkt(spec.crs)

\* lines 83-105: grid_mapping, for a grid that does not raise
GridMapping(grid) ==
    [projection_x_coordinate |-> grid.upperLeft[1],
     projection_y_coordinate |-> grid.upperLeft[2]] @@
    (IF "crs" \notin DOMAIN grid
     THEN [spatial_ref |-> to_wkt(EPSG4326)]
     ELSE [spatial_ref |-> SpatialRef(grid.crs)] @@
          (IF CallsTransverseMercator(grid.crs)
           THEN _transverse_mercator(grid.crs.crs)
           ELSE <<>>))

\* lines 125-140: the data handed to create_dataset for a COORDINATE_X axis or
\* (the else branch) an axis of any kind but DIMENSION_VALUE and COORDINATE_X:
\* a list holding one row, so an array of shape (1, n); the row is computed
\* from the grid, or np.empty when there is no grid
GridRow(grid, origin, n) ==
    IF grid = <<>> THEN np_empty
    ELSE [idx \in Indices(<<1, n>>) |-> grid.upperLeft[origin] + grid.unitSize * idx[2]]

\* lines 118-146: the coordinate array of one dimension
CoordinateArray(var, dim, n, grid) ==
    LET attrs == [_ARRAY_DIMENSION |-> <<Path(var, dim[1])>>,
                  standard_name |-> dim[2],
                  units |-> dim[3]]
    IN IF dim[5] = DIMENSION_VALUE THEN NewArray(<<n>>, np_empty, attrs)
       ELSE IF dim[5] = COORDINATE_X THEN NewArray(<<1, n>>, GridRow(grid, 1, n), attrs)
       ELSE NewArray(<<1, n>>, GridRow(grid, 2, n), attrs)

\* lines 110-113: the attributes of the data array of a variable
VarAttr(var, spec, grid) ==
    (IF grid = <<>> THEN <<>> ELSE [grid_mapping |-> Path(var, "crs_grid")]) @@
    Update(spec.attributes,
           [_ARRAY_DIMENSIONS |->
               [i \in 1 .. Len(spec.dimensions) |-> Path(var, spec.dimensions[i][1])]])

\* lines 115-156: the arrays created for one variable
VariableArrays(var, spec, grid, grid_mapping) ==
    LET dims == spec.dimensions
        coords == [p \in {Path(var, dims[i][1]) : i \in 1 .. Len(dims)} |->
                      LET i == CHOOSE j \in 1 .. Len(dims) : Path(var, dims[j][1]) = p
                      IN CoordinateArray(var, dims[i], spec.shape[i], grid)]
    IN (Path(var, spec.name) :> NewArray(spec.shape, np_empty, VarAttr(var, spec, grid))) @@
       (Path(var, "crs_grid") :> NewArray(<<0>>, np_empty, grid_mapping)) @@
       coords

\* value after lines 78-80 and 107: the two reserved keys are deleted
VariablesOf(v) == (DOMAIN v) \ {"global_attributes", "grid"}

\* value after the setter: var_attr is value[var]['attributes'], updated in place
ValueAfter(v, grid) ==
    [var \in VariablesOf(v) |->
        [v[var] EXCEPT !.attributes = VarAttr(var, v[var], grid)]]

\* CreateMode without the test of the mode
CreateModeAlways(m) == TRUE

\* line 77: the setter acts only on a dataset opened with mode 'x'
CreateMode(m) == m = "x"

\* lines 37-158, the schema setter: self.schema = value
SetSchema ==
    /\ phase = "opened"
    /\ LET grid == Get(value, "grid", <<>>)
           noGlobal == Del(value, "global_attributes")
       IN IF ~CreateMode(mode)
          THEN \* lines 77 and 158: nothing is done, nothing is raised
               /\ phase' = "returned"
               /\ UNCHANGED <<value, groups, arrays, root_attrs>>
          ELSE /\ root_attrs' = Update(root_attrs, Get(value, "global_attributes", <<>>))
               /\ IF grid # <<>> /\ GridRaises(grid)
                  THEN /\ phase' = "AttributeError"
                       /\ value' = noGlobal
                       /\ UNCHANGED <<groups, arrays>>
                  ELSE LET grid_mapping == IF grid = <<>> THEN <<>> ELSE GridMapping(grid)
                       IN /\ phase' = "returned"
                          /\ value' = ValueAfter(value, grid)
                          /\ groups' = groups \cup VariablesOf(value)
                          /\ arrays' =
                                LET var == CHOOSE x \in VariablesOf(value) : TRUE
                                IN VariableArrays(var, value[var], grid, grid_mapping)
    /\ UNCHANGED <<mode, futures, finished, raised>>
    /\ UNCHANGED ovVars

(***************************************************************************)
(* set_index and insert                                                    *)
(***************************************************************************)
\* the paths of the coordinate arrays and of the data array of the store
DataPaths == {p \in DOMAIN arrays : "_ARRAY_DIMENSIONS" \in DOMAIN arrays[p].attrs}
CoordPaths == {p \in DOMAIN arrays : "_ARRAY_DIMENSION" \in DOMAIN arrays[p].attrs}

\* a full write of a 1-D sequence of values: the store takes values of
\* exactly the shape of the array
FullWrite(arr, values) ==
    [arr EXCEPT !.cells = [idx \in Indices(arr.shape) |-> values[idx[1] + 1]]]

\* lines 163-164, set_index: self._dataset[index_name][:] = values
SetIndex ==
    /\ phase = "returned"
    /\ futures = {} /\ finished = {}
    /\ \E index_name \in CoordPaths :
       \E n \in 1 .. MaxExtent :
       \E values \in [1 .. n -> Vals] :
          IF arrays[index_name].shape = <<n>>
          THEN /\ arrays' = [arrays EXCEPT ![index_name] = FullWrite(@, values)]
               /\ raised' = ""
          ELSE /\ raised' = "ValueError"
               /\ UNCHANGED arrays
    /\ UNCHANGED <<mode, value, groups, root_attrs, phase, futures, finished>>
    /\ UNCHANGED ovVars

\* the call insert(dataset_name, data, indexes): data is an array of
\* data_shape filled with the value fill; the n-th call created carries the
\* value n
Selectors(dataset_name) ==
    {<<p, v>> : p \in CoordPaths, v \in Vals}

\* the indexes lists: up to MaxSel selectors, no two of the same path
IndexLists(dataset_name) ==
    {l \in UNION {[1 .. n -> Selectors(dataset_name)] : n \in 0 .. MaxSel} :
        \A i, j \in 1 .. Len(l) : l[i][1] = l[j][1] => i = j}

\* line 179
index_keys(indexes) == [i \in 1 .. Len(indexes) |-> indexes[i][1]]

\* list.index: the position (1-based here) of the first element equal to x
ListIndex(list, x) == CHOOSE i \in 1 .. Len(list) : list[i] = x /\ \A j \in 1 .. i - 1 : list[j] # x

Contains(list, x) == \E i \in 1 .. Len(list) : list[i] = x

\* the shape of a data that fits the selection: the extents of the axes no
\* selector names, in axis order
RECURSIVE Unselected(_, _, _)
Unselected(dims, shape, keys) ==
    IF dims = <<>> THEN <<>>
    ELSE IF Contains(keys, Head(dims))
         THEN Unselected(Tail(dims), Tail(shape), keys)
         ELSE <<Head(shape)>> \o Unselected(Tail(dims), Tail(shape), keys)

\* line 183: the outcomes of list(self._dataset[index][:]).index(v), an
\* offset (0-based) or -1 for ValueError.
\*   a 1-D array: the first cell equal to v. A cell np.empty left unwritten
\*     reads as anything, so it may or may not be the first match.
\*   an array of shape (1, n): the list holds one row, compared to v as a
\*     whole; the comparison has a truth value only when the row has one cell.
IndexOutcomes(arr, v) ==
    LET written(i) == <<i>> \in DOMAIN arr.cells
        n == arr.shape[Len(arr.shape)]
    IN IF Len(arr.shape) = 1
       THEN {i \in 0 .. n - 1 :
                /\ written(i) => arr.cells[<<i>>] = v
                /\ \A j \in 0 .. i - 1 : written(j) => arr.cells[<<j>>] # v}
            \cup (IF \E i \in 0 .. n - 1 : written(i) /\ arr.cells[<<i>>] = v
                  THEN {}
                  ELSE {-1})
       ELSE IF n # 1 THEN {-1}
       ELSE IF <<0, 0>> \in DOMAIN arr.cells
            THEN (IF arr.cells[<<0, 0>>] = v THEN {0} ELSE {-1})
            ELSE {0, -1}

\* lines 180-186: the subscripts of index_expr, one per entry of
\* _ARRAY_DIMENSIONS: an offset for an axis a selector names, -2 for [:].
\* offsets gives the offset chosen for each axis.
Subscripts(dims, keys, offsets) ==
    [i \in 1 .. Len(dims) |-> IF Contains(keys, dims[i]) THEN offsets[i] ELSE -2]

\* a subscript applied to an array of this shape: the shape of the result
\* (an offset drops the leading axis, [:] keeps the shape), <<-1>> when the
\* offset is out of the bounds of the leading axis (IndexError)
SubShape(shape, sub) ==
    IF sub = -2 THEN shape
    ELSE IF sub < shape[1] THEN Tail(shape) ELSE <<-1>>

RECURSIVE ChainShape(_, _)
ChainShape(shape, subs) ==
    IF subs = <<>> \/ shape = <<-1>> THEN shape
    ELSE ChainShape(SubShape(shape, Head(subs)), Tail(subs))

\* numpy broadcasting of a data to the target of an assignment
Broadcasts(data_shape, target) ==
    /\ Len(data_shape) <= Len(target)
    /\ \A i \in 1 .. Len(data_shape) :
          LET t == target[Len(target) - Len(data_shape) + i]
          IN data_shape[i] = t \/ data_shape[i] = 1

\* self._dataset[name][sub] = data on the array of the store (one subscript)
StoreAssign(arr, sub, fill) ==
    IF sub = -2
    THEN [arr EXCEPT !.cells = [idx \in Indices(arr.shape) |-> fill]]
    ELSE [arr EXCEPT !.cells = (<<sub>> :> fill) @@ @]

\* line 189, exec(index_expr): self._dataset[name][s1]...[sk] = data.
\* Python evaluates self._dataset[name][s1]...[s(k-1)] and assigns to
\* subscript sk of the result. Subscripting the array of the store reads it
\* into a new in-memory array, and subscripting that gives a view of it: with
\* k >= 2 the assignment lands in that in-memory array, which is dropped, and
\* only with k = 1 is it an assignment to the array of the store.
\* The result is the outcome and the array of the store afterwards.
ExecIndexExpr(arr, subs, data_shape, fill) ==
    LET target == ChainShape(arr.shape, subs)
    IN IF target = <<-1>> THEN [outcome |-> "IndexError", arr |-> arr]
       ELSE IF Len(subs) = 1
            THEN (IF data_shape = target
                  THEN [outcome |-> "done", arr |-> StoreAssign(arr, subs[1], fill)]
                  ELSE [outcome |-> "ValueError", arr |-> arr])
            ELSE IF Broadcasts(data_shape, target)
                 THEN [outcome |-> "done", arr |-> arr]
                 ELSE [outcome |-> "ValueError", arr |-> arr]

\* the caller creates the coroutine insert(dataset_name, data, indexes); its
\* body runs when the event loop runs it
CreateInsert ==
    /\ phase = "returned"
    /\ Cardinality(futures) + Cardinality(finished) < MaxCalls
    /\ \E dataset_name \in DataPaths :
       \E indexes \in IndexLists(dataset_name) :
          futures' = futures \cup
              {[id |-> Cardinality(futures) + Cardinality(finished) + 1,
                dataset_name |-> dataset_name,
                indexes |-> indexes,
                data_shape |-> Unselected(arrays[dataset_name].attrs["_ARRAY_DIMENSIONS"],
                                          arrays[dataset_name].shape,
                                          index_keys(indexes)),
                fill |-> Cardinality(futures) + Cardinality(finished) + 1]}
    /\ UNCHANGED <<mode, value, groups, arrays, root_attrs, phase, finished, raised>>
    /\ UNCHANGED ovVars

\* lines 167-189, insert: the coroutine has no await, so the event loop runs
\* its body in one piece
RunInsert ==
    /\ \E call \in futures :
          LET arr == arrays[call.dataset_name]
              dims == arr.attrs["_ARRAY_DIMENSIONS"]
              keys == index_keys(call.indexes)
              \* line 183 per axis a selector names
              choices == [i \in 1 .. Len(dims) |->
                            IF Contains(keys, dims[i])
                            THEN IndexOutcomes(arrays[dims[i]],
                                               call.indexes[ListIndex(keys, dims[i])][2])
                            ELSE {-2}]
          IN \E offsets \in [1 .. Len(dims) -> UNION {choices[i] : i \in 1 .. Len(dims)}] :
                /\ \A i \in 1 .. Len(dims) : offsets[i] \in choices[i]
                /\ LET result ==
                          IF \E i \in 1 .. Len(dims) : offsets[i] = -1
                          THEN [outcome |-> "ValueError", arr |-> arr]
                          ELSE ExecIndexExpr(arr, Subscripts(dims, keys, offsets),
                                             call.data_shape, call.fill)
                   IN /\ arrays' = [arrays EXCEPT ![call.dataset_name] = result.arr]
                      /\ finished' = finished \cup
                            {[call |-> call, outcome |-> result.outcome, offsets |-> offsets]}
                      /\ futures' = futures \ {call}
    /\ UNCHANGED <<mode, value, groups, root_attrs, phase, raised>>
    /\ UNCHANGED ovVars

DatasetIdle ==
    /\ mode = "r"
    /\ value = <<>>
    /\ groups = {}
    /\ arrays = <<>>
    /\ root_attrs = <<>>
    /\ phase = "opened"
    /\ futures = {}
    /\ finished = {}
    /\ raised = ""

\* lines 22-28: the state when the loops start
InitOverview ==
    /\ DatasetIdle
    /\ image \in Rasters
    /\ zoom_level \in 1 .. MaxZoom
    /\ pos = FirstPos(image, zoom_level)
    /\ zoom_image = Zeros(zoom_shape)
    /\ outcome = "loop"

NextOverview == OverviewAverage \/ OverviewZero \/ OverviewReturn

SpecOverview == InitOverview /\ [][NextOverview]_vars

\* a store an earlier session created: one variable over one time axis
ExistingStore ==
    LET spec == [name |-> "SWE", attributes |-> <<>>, shape |-> <<1>>,
                 dtype |-> "float64", dimensions |-> <<DimTime>>]
    IN [groups |-> {"SWE"},
        arrays |-> VariableArrays("SWE", spec, <<>>, <<>>),
        root_attrs |-> [conventions |-> "CF-1.11"]]

EmptyStore == [groups |-> {}, arrays |-> <<>>, root_attrs |-> <<>>]

\* GeoZarrDataset.__init__ (lines 20-31) and the dict the caller will assign:
\* mode 'r' opens one of the stores given, mode 'x' (zarr mode 'w') starts
\* from an empty store
InitDataset(schemas, stores) ==
    /\ mode \in {"r", "x"}
    /\ value \in schemas
    /\ \E st \in (IF mode = "r" THEN stores ELSE {EmptyStore}) :
          /\ groups = st.groups
          /\ arrays = st.arrays
          /\ root_attrs = st.root_attrs
    /\ phase = "opened"
    /\ futures = {}
    /\ finished = {}
    /\ raised = ""
    /\ image = <<>>
    /\ zoom_level = 0
    /\ pos = <<>>
    /\ zoom_image = <<>>
    /\ outcome = "idle"

InitCRS ==
    InitDataset(Schemas({<<>>, [global_attributes |-> GlobalAttributes]}, Grids, DimListsZ, Shapes),
                {EmptyStore, ExistingStore})

NextCRS == SetSchema

SpecCRS == InitCRS /\ [][NextCRS]_vars

\* the grids of the life of a dataset: none, or the base grid without a crs
Init ==
    InitDataset(Schemas({[global_attributes |-> GlobalAttributes]}, {GridBase}, DimLists, CubeShapes),
                {EmptyStore})

Next == SetSchema \/ SetIndex \/ CreateInsert \/ RunInsert

Spec == Init /\ [][Next]_vars

(***************************************************************************)
(* Properties of insert (specification Spec)                               *)
(***************************************************************************)
\* the coordinate array is 1-D, written in full, and holds v
Materialized(p, v) ==
    /\ p \in DOMAIN arrays
    /\ Len(arrays[p].shape) = 1
    /\ DOMAIN arrays[p].cells = Indices(arrays[p].shape)
    /\ \E idx \in DOMAIN arrays[p].cells : arrays[p].cells[idx] = v

\* the position of the first element of the coordinate array equal to v
FirstEqual(p, v) ==
    CHOOSE i \in 0 .. arrays[p].shape[1] - 1 :
        /\ arrays[p].cells[<<i>>] = v
        /\ \A j \in 0 .. i - 1 : arrays[p].cells[<<j>>] # v

LinkedAxes(call) == arrays[call.dataset_name].attrs["_ARRAY_DIMENSIONS"]

\* every selector of the call names a linked axis whose coordinate array holds its value
Resolvable(call) ==
    \A s \in 1 .. Len(call.indexes) :
        /\ Contains(LinkedAxes(call), call.indexes[s][1])
        /\ Materialized(call.indexes[s][1], call.indexes[s][2])

\* the elements the selectors of the call address
Addressed(call) ==
    {idx \in Indices(arrays[call.dataset_name].shape) :
        \A s \in 1 .. Len(call.indexes) :
            idx[ListIndex(LinkedAxes(call), call.indexes[s][1])] =
                FirstEqual(call.indexes[s][1], call.indexes[s][2])}

\* the cells of the data array once data is written to the addressed elements
CellsAfter(call) ==
    LET old == arrays[call.dataset_name].cells
    IN [idx \in (DOMAIN old) \cup Addressed(call) |->
           IF idx \in Addressed(call) THEN call.fill ELSE old[idx]]

\* the event loop runs this call in this step
Runs(call) == call \in futures /\ call \notin futures'

\* C1: for a 3-D variable (time, y, x) whose time coordinate array set_index
\* has written, running insert(dataPath, data, [(timePath, t)]) with data of
\* shape (y extent, x extent) leaves the data array with data in the plane at
\* the offset of the first time equal to t and every other plane as it was.
C1_SparseInsertWritesOnePlane ==
    [][\A call \in futures :
          (/\ Runs(call)
           /\ Len(LinkedAxes(call)) = 3
           /\ Len(call.indexes) = 1
           /\ call.indexes[1][1] = LinkedAxes(call)[1]
           /\ Resolvable(call))
          => arrays'[call.dataset_name].cells = CellsAfter(call)]_vars

\* C10: for a data array with k >= 2 axes and selectors naming any subset of
\* its linked axes in any order, running insert writes data to exactly the
\* elements whose index along each named axis is the position of the first
\* element of that axis's coordinate array equal to the selector value.
C10_InsertAddressesNamedAxes ==
    [][\A call \in futures :
          (/\ Runs(call)
           /\ Len(LinkedAxes(call)) >= 2
           /\ Len(call.indexes) >= 1
           /\ Resolvable(call))
          => /\ \A idx \in Addressed(call) :
                   /\ idx \in DOMAIN arrays'[call.dataset_name].cells
                   /\ arrays'[call.dataset_name].cells[idx] = call.fill
             /\ \A idx \in (DOMAIN arrays'[call.dataset_name].cells) \ Addressed(call) :
                   /\ idx \in DOMAIN arrays[call.dataset_name].cells
                   /\ arrays'[call.dataset_name].cells[idx] =
                          arrays[call.dataset_name].cells[idx]]_vars

\* the calls of finished select pairwise different values of one axis, which
\* is materialized
DisjointSelections ==
    /\ \A f \in finished : Len(f.call.indexes) = 1 /\ Resolvable(f.call)
    /\ \A f, g \in finished :
          /\ f.call.indexes[1][1] = g.call.indexes[1][1]
          /\ f.call.indexes[1][2] = g.call.indexes[1][2] => f = g

\* C7: when insert calls selecting pairwise different values of one axis have
\* all been run by the event loop, in whatever order, every one of them
\* completed and the data array holds each call's data at that call's slice.
C7_DisjointInsertsAllLand ==
    (futures = {} /\ Cardinality(finished) = MaxCalls /\ DisjointSelections)
    => \A f \in finished :
          /\ f.outcome = "done"
          /\ \A idx \in Addressed(f.call) :
                /\ idx \in DOMAIN arrays[f.call.dataset_name].cells
                /\ arrays[f.call.dataset_name].cells[idx] = f.call.fill

(***************************************************************************)
(* Properties of the schema setter (specification SpecCRS)                 *)
(***************************************************************************)
Assigned == phase = "returned" /\ mode = "x"

\* C2: after the setter returns on a create-mode store, the data array of
\* every variable carries _ARRAY_DIMENSIONS, the paths /<variable>/<dimension>
\* in the order of the DimensionSpec list, and each coordinate array carries
\* _ARRAY_DIMENSIONS, the list holding its own path.
C2_ArrayDimensionsLinkage ==
    Assigned =>
        \A var \in DOMAIN value :
            LET dims == value[var].dimensions
                data == arrays[Path(var, value[var].name)]
            IN /\ "_ARRAY_DIMENSIONS" \in DOMAIN data.attrs
               /\ data.attrs["_ARRAY_DIMENSIONS"] =
                      [i \in 1 .. Len(dims) |-> Path(var, dims[i][1])]
               /\ \A i \in 1 .. Len(dims) :
                      LET coord == arrays[Path(var, dims[i][1])]
                      IN /\ "_ARRAY_DIMENSIONS" \in DOMAIN coord.attrs
                         /\ coord.attrs["_ARRAY_DIMENSIONS"] = <<Path(var, dims[i][1])>>

\* C5: after the setter returns, the coordinate array of every dimension is a
\* 1-D array of the declared extent n; with a grid, a COORDINATE_X array holds
\* upperLeft[0] + unitSize * i and a COORDINATE_Y array upperLeft[1] +
\* unitSize * i; arrays of kind DIMENSION_VALUE or COORDINATE_Z, and all
\* arrays without a grid, are left unwritten.
C5_CoordinateArrays ==
    [][(phase = "opened" /\ phase' = "returned" /\ mode = "x") =>
          \A var \in VariablesOf(value) :
          \A i \in 1 .. Len(value[var].dimensions) :
              LET dim == value[var].dimensions[i]
                  n == value[var].shape[i]
                  coord == arrays'[Path(var, dim[1])]
                  grid == Get(value, "grid", <<>>)
              IN /\ coord.shape = <<n>>
                 /\ IF grid # <<>> /\ dim[5] \in {COORDINATE_X, COORDINATE_Y}
                    THEN coord.cells =
                             [idx \in Indices(<<n>>) |->
                                 grid.upperLeft[IF dim[5] = COORDINATE_X THEN 1 ELSE 2]
                                     + grid.unitSize * idx[1]]
                    ELSE coord.cells = np_empty]_vars

\* the setter is called on a dataset opened read-only
ReadOnlyAssignment == phase = "opened" /\ mode = "r"

\* C6 as stated: assigning a schema to a dataset opened read-only fails with
\* ModeError and leaves the store unchanged.
C6_ReadOnlyRaisesModeError ==
    [][ReadOnlyAssignment =>
          /\ phase' = "ModeError"
          /\ UNCHANGED <<groups, arrays, root_attrs>>]_vars

\* C6 amended: assigning a schema to a dataset opened read-only returns
\* without raising and leaves the store and the schema dict unchanged; a
\* schema assignment changes the store only on a dataset opened in create mode.
C6_ReadOnlyIsIgnored ==
    [][/\ ReadOnlyAssignment =>
             /\ phase' = "returned"
             /\ UNCHANGED <<groups, arrays, root_attrs, value>>
       /\ arrays' # arrays => mode = "x"]_vars

\* C6 witness: the setter has returned on a dataset opened read-only on a
\* store that holds arrays
C6_WitnessReadOnlyReturned ==
    mode = "r" /\ phase = "returned" /\ arrays # <<>>

ProjectionKeys ==
    {"grid_mapping_name", "false_easting", "false_northing",
     "scale_factor_at_central_meridian", "longitude_of_central_meridian",
     "latitude_of_projection_origin"}

\* the crs_grid arrays of the store whose variable has a grid
GridMappings ==
    {p \in DOMAIN arrays :
        /\ p[2] = "crs_grid"
        /\ \E d \in DataPaths : d[1] = p[1] /\ "grid_mapping" \in DOMAIN arrays[d].attrs}

\* the CRS a spatial_ref attribute describes
CrsOf(attrs) == attrs.spatial_ref[2]

\* C8: for a CRS that is not a projected CRS with the Transverse Mercator
\* method, given as an EPSG identifier or as WKT, the attributes written to
\* crs_grid hold spatial_ref and none of the projection parameters.
C8_NonTransverseMercatorHasNoParameters ==
    \A p \in GridMappings :
        /\ "spatial_ref" \in DOMAIN arrays[p].attrs
        /\ ~IsTransverseMercator(CrsOf(arrays[p].attrs))
              => (DOMAIN arrays[p].attrs) \cap ProjectionKeys = {}

HasSemiAxes(attrs) == {"semi_major_axis", "semi_minor_axis"} \subseteq DOMAIN attrs
HasNoSemiAxis(attrs) == {"semi_major_axis", "semi_minor_axis"} \cap DOMAIN attrs = {}

\* C9 as stated: for a Transverse Mercator CRS the attributes hold
\* semi_major_axis and semi_minor_axis exactly when the semi-minor axis of the
\* ellipsoid is not computed, and neither when it is computed.
C9_SemiAxesWhenNotComputed ==
    \A p \in GridMappings :
        IsTransverseMercator(CrsOf(arrays[p].attrs)) =>
            IF CrsOf(arrays[p].attrs).is_semi_minor_computed
            THEN HasNoSemiAxis(arrays[p].attrs)
            ELSE HasSemiAxes(arrays[p].attrs)

\* C9 amended: for a Transverse Mercator CRS the attributes written to
\* crs_grid hold semi_major_axis and semi_minor_axis exactly when the
\* semi-minor axis of the ellipsoid is computed, and neither when it is
\* independently defined.
C9_SemiAxesWhenComputed ==
    \A p \in GridMappings :
        IsTransverseMercator(CrsOf(arrays[p].attrs)) =>
            IF CrsOf(arrays[p].attrs).is_semi_minor_computed
            THEN HasSemiAxes(arrays[p].attrs)
            ELSE HasNoSemiAxis(arrays[p].attrs)

\* C9 witness: the setter has written the grid mapping of a Transverse
\* Mercator CRS whose semi-minor axis is computed, with both axes
C9_WitnessComputed ==
    \E p \in GridMappings :
        /\ IsTransverseMercator(CrsOf(arrays[p].attrs))
        /\ CrsOf(arrays[p].attrs).is_semi_minor_computed
        /\ "grid_mapping_name" \in DOMAIN arrays[p].attrs
        /\ HasSemiAxes(arrays[p].attrs)

(***************************************************************************)
(* Properties of create_overview (specification SpecOverview)              *)
(***************************************************************************)
\* the 2x2 source neighbourhood of the output pixel (r, c)
Block(r, c) == pixel_values(<<start + r * step, start + c * step>>)

Positive(r, c, b) == {q \in Block(r, c) : q[3] = b /\ image[q] > 0}

\* C3: create_overview completes without a division by zero, and an output
\* pixel is 0 in all bands when its neighbourhood is all 0, else per band the
\* rounded average of the samples of that band that are > 0.
C3_ZeroAwareAverage ==
    /\ outcome # "ZeroDivisionError"
    /\ outcome = "returned" =>
          \A q \in DOMAIN zoom_image :
              IF \A x \in Block(q[1], q[2]) : image[x] = 0
              THEN zoom_image[q] = 0
              ELSE /\ Positive(q[1], q[2], q[3]) # {}
                   /\ zoom_image[q] =
                          RoundHalfEven(SumOver(Positive(q[1], q[2], q[3])),
                                        Cardinality(Positive(q[1], q[2], q[3])))

\* C4: create_overview returns an array of shape (height // step,
\* width // step, bands); when step does not divide height or width the
\* output is truncated and the call does not fail.
C4_TruncatedShape ==
    /\ outcome # "IndexError"
    /\ outcome = "returned" =>
          DOMAIN zoom_image =
              (0 .. Height(image) \div step - 1) \X (0 .. Width(image) \div step - 1)
                  \X (0 .. Bands(image) - 1)

====
